---- MODULE Spec2Model ----
(***************************************************************************)
(* A model of the macro expander of dwh_migration_client                   *)
(* (macro_processor_ofr.py): OfrMapBasedExpander.expand / unexpand,        *)
(* FileExpansioning._used_macros and MacroDef (type inference and value    *)
(* perturbation).                                                          *)
(*                                                                         *)
(* Texts are TLA+ strings; a character is a string of length 1.  The       *)
(* Python string and regular-expression primitives the code calls are      *)
(* defined below as operators that compute what the primitives compute.    *)
(***************************************************************************)
EXTENDS Integers, Sequences, FiniteSets, TLC

\* ------------------------------------------------------------------------
\* Characters and strings
\* ------------------------------------------------------------------------

\* s[i-1:i]: the character at position i, empty outside the string
Ch(s, i) == IF 1 <= i /\ i <= Len(s) THEN SubSeq(s, i, i) ELSE ""

CharsOf(s) == {Ch(s, i) : i \in 1..Len(s)}

LowerAlpha == "abcdefghijklmnopqrstuvwxyz"

UpperAlpha == "ABCDEFGHIJKLMNOPQRSTUVWXYZ"

Digits == "0123456789"

LowerSet == CharsOf(LowerAlpha)

UpperSet == CharsOf(UpperAlpha)

DigitSet == CharsOf(Digits)

\* The characters of char_top.json (letters outside ASCII, here caseless),
\* written with two ASCII stand-ins.
CHAR_CPLX == {"#", "@"}

LowerMap == [c \in UpperSet |-> Ch(LowerAlpha, CHOOSE i \in 1..26 : Ch(UpperAlpha, i) = c)]

UpperMap == [c \in LowerSet |-> Ch(UpperAlpha, CHOOSE i \in 1..26 : Ch(LowerAlpha, i) = c)]

LowerCh(c) == IF c \in UpperSet THEN LowerMap[c] ELSE c

UpperCh(c) == IF c \in LowerSet THEN UpperMap[c] ELSE c

RECURSIVE Lower(_)
\* str.lower(), character by character (the two halves of s in turn)
Lower(s) ==
    IF Len(s) <= 1 THEN LowerCh(s)
    ELSE Lower(SubSeq(s, 1, Len(s) \div 2)) \o Lower(SubSeq(s, Len(s) \div 2 + 1, Len(s)))

RECURSIVE Upper(_)
\* str.upper()
Upper(s) ==
    IF Len(s) <= 1 THEN UpperCh(s)
    ELSE Upper(SubSeq(s, 1, Len(s) \div 2)) \o Upper(SubSeq(s, Len(s) \div 2 + 1, Len(s)))

\* the leftmost of a non-empty set of positions
Least(S) == CHOOSE m \in S : \A n \in S : m <= n

\* str.isalnum() of one character
IsAlnum(c) == c \in LowerSet \cup UpperSet \cup DigitSet \cup CHAR_CPLX

\* [a-zA-Z_]
IsIdentStart(c) == c \in LowerSet \cup UpperSet \cup {"_"}

\* [a-zA-Z_0-9]
IsIdentChar(c) == c \in LowerSet \cup UpperSet \cup DigitSet \cup {"_"}

\* s has p at position i
HasAt(s, i, p) == i >= 1 /\ i + Len(p) - 1 <= Len(s) /\ SubSeq(s, i, i + Len(p) - 1) = p

StartsWith(s, p) == HasAt(s, 1, p)

EndsWith(s, p) == HasAt(s, Len(s) - Len(p) + 1, p)

\* "p in s"
Contains(s, p) == \E i \in 1..(Len(s) + 1) : HasAt(s, i, p)

RECURSIVE ReplaceFrom(_, _, _, _)
\* the replacement from position i on: up to the leftmost occurrence, the
\* new text, then the rest from behind that occurrence
ReplaceFrom(s, old, new, i) ==
    LET hits == {j \in i..Len(s) : HasAt(s, j, old)}
    IN IF hits = {} THEN SubSeq(s, i, Len(s))
       ELSE SubSeq(s, i, Least(hits) - 1) \o new
                \o ReplaceFrom(s, old, new, Least(hits) + Len(old))

RECURSIVE Interleave(_, _)
\* new behind every character of s
Interleave(s, new) ==
    IF s = "" THEN ""
    ELSE IF Len(s) = 1 THEN s \o new
    ELSE Interleave(SubSeq(s, 1, Len(s) \div 2), new)
             \o Interleave(SubSeq(s, Len(s) \div 2 + 1, Len(s)), new)

\* str.replace(old, new): every non-overlapping occurrence, leftmost first;
\* an empty old matches before every character and at the end.
Replace(s, old, new) ==
    IF old = "" THEN new \o Interleave(s, new) ELSE ReplaceFrom(s, old, new, 1)

RECURSIVE CountFrom(_, _, _)
CountFrom(s, sub, i) ==
    LET hits == {j \in i..Len(s) : HasAt(s, j, sub)}
    IN IF hits = {} THEN 0 ELSE 1 + CountFrom(s, sub, Least(hits) + Len(sub))

\* str.count(sub) for a non-empty sub: non-overlapping occurrences
Count(s, sub) == CountFrom(s, sub, 1)

IsSpace(c) == c \in {" ", "\t", "\n"}

RECURSIVE LStrip(_)
LStrip(s) == IF s # "" /\ IsSpace(Ch(s, 1)) THEN LStrip(SubSeq(s, 2, Len(s))) ELSE s

RECURSIVE RStrip(_)
RStrip(s) == IF s # "" /\ IsSpace(Ch(s, Len(s))) THEN RStrip(SubSeq(s, 1, Len(s) - 1)) ELSE s

\* str.strip()
Strip(s) == RStrip(LStrip(s))

\* re.search(re.escape(p), s, re.IGNORECASE)
SearchIgnoreCase(p, s) == Contains(Lower(s), Lower(p))

\* ------------------------------------------------------------------------
\* FileExpansioning: the references of a text
\* ------------------------------------------------------------------------

RECURSIVE IdentEnd(_, _)
\* the last position of the longest run of [a-zA-Z_0-9] that starts at i
IdentEnd(text, i) ==
    IF i + 1 <= Len(text) /\ IsIdentChar(Ch(text, i + 1)) THEN IdentEnd(text, i + 1) ELSE i

\* first alternative of unix_var at position i: (?<!\\)(\$(?P<vars>NAME))
BareAt(text, i) ==
    /\ Ch(text, i) = "$"
    /\ (i = 1 \/ Ch(text, i - 1) # "\\")
    /\ i + 1 <= Len(text)
    /\ IsIdentStart(Ch(text, i + 1))

\* second alternative of unix_var at position i: (\${(?P<varm>NAME)});
\* the look-behind of the pattern belongs to the first alternative only
BracedAt(text, i) ==
    /\ HasAt(text, i, "${")
    /\ i + 2 <= Len(text)
    /\ IsIdentStart(Ch(text, i + 2))
    /\ Ch(text, IdentEnd(text, i + 2) + 1) = "}"

RECURSIVE FindIter(_, _)
\* unix_var.finditer(text): the names matched, in order, from position i on
FindIter(text, i) ==
    LET hits == {j \in i..Len(text) : BareAt(text, j) \/ BracedAt(text, j)}
        j == Least(hits)
    IN IF hits = {} THEN <<>>
       ELSE IF BareAt(text, j)
            THEN <<SubSeq(text, j + 1, IdentEnd(text, j + 1))>>
                     \o FindIter(text, IdentEnd(text, j + 1) + 1)
       ELSE <<SubSeq(text, j + 2, IdentEnd(text, j + 2))>>
                \o FindIter(text, IdentEnd(text, j + 2) + 2)

RECURSIVE CountDict(_, _)
\* the dict built by setdefault / += 1 over the matches: a sequence of
\* [name, count] in order of first occurrence
CountDict(names, acc) ==
    IF names = <<>> THEN acc
    ELSE LET n == Head(names)
             hit == {k \in 1..Len(acc) : acc[k].name = n}
         IN CountDict(Tail(names),
                IF hit = {} THEN Append(acc, [name |-> n, count |-> 1])
                ELSE [k \in 1..Len(acc) |->
                        IF k \in hit THEN [acc[k] EXCEPT !.count = @ + 1] ELSE acc[k]])

\* del env_var[key]
DelKey(d, key) == SelectSeq(d, LAMBDA e : e.name # key)

\* FileExpansioning._used_macros
UsedMacros(text) == DelKey(DelKey(CountDict(FindIter(text, 1), <<>>), "HEADER"), "Workfile")

Keys(d) == {d[k].name : k \in 1..Len(d)}

Get(d, key) == d[CHOOSE k \in 1..Len(d) : d[k].name = key]

\* code-point order of the characters a name is made of
AsciiOrder == "0123456789ABCDEFGHIJKLMNOPQRSTUVWXYZ_abcdefghijklmnopqrstuvwxyz"

Ord(c) == CHOOSE i \in 1..Len(AsciiOrder) : Ch(AsciiOrder, i) = c

RECURSIVE StrLess(_, _)
\* a < b on str
StrLess(a, b) ==
    IF b = "" THEN FALSE
    ELSE IF a = "" THEN TRUE
    ELSE IF Ch(a, 1) = Ch(b, 1) THEN StrLess(SubSeq(a, 2, Len(a)), SubSeq(b, 2, Len(b)))
    ELSE Ord(Ch(a, 1)) < Ord(Ch(b, 1))

RECURSIVE Sorted(_)
\* sorted(keys)
Sorted(S) ==
    IF S = {} THEN <<>>
    ELSE LET m == CHOOSE a \in S : \A b \in S \ {a} : StrLess(a, b)
         IN <<m>> \o Sorted(S \ {m})

\* ------------------------------------------------------------------------
\* int(), str(int), decimal.Decimal(), Decimal arithmetic and str(Decimal)
\* ------------------------------------------------------------------------

IsDigitStr(s) == s # "" /\ \A i \in 1..Len(s) : Ch(s, i) \in DigitSet

DigitVal(c) == (CHOOSE i \in 1..10 : Ch(Digits, i) = c) - 1

RECURSIVE NatOf(_)
NatOf(s) == IF s = "" THEN 0 ELSE 10 * NatOf(SubSeq(s, 1, Len(s) - 1)) + DigitVal(Ch(s, Len(s)))

RECURSIVE NatStr(_)
NatStr(n) == IF n < 10 THEN Ch(Digits, n + 1) ELSE NatStr(n \div 10) \o Ch(Digits, (n % 10) + 1)

\* str(n) for an int
IntStr(n) == IF n < 0 THEN "-" \o NatStr(0 - n) ELSE NatStr(n)

HasSign(t) == Ch(t, 1) \in {"+", "-"}

Unsigned(t) == IF HasSign(t) THEN SubSeq(t, 2, Len(t)) ELSE t

\* int(s) succeeds: optional sign, digits, single underscores between digits
IsInt(s) ==
    LET b == Unsigned(Strip(s))
    IN /\ b # ""
       /\ \A i \in 1..Len(b) : Ch(b, i) \in DigitSet \cup {"_"}
       /\ Ch(b, 1) # "_"
       /\ Ch(b, Len(b)) # "_"
       /\ ~Contains(b, "__")

\* int(s)
IntVal(s) ==
    LET t == Strip(s)
        n == NatOf(Replace(Unsigned(t), "_", ""))
    IN IF Ch(t, 1) = "-" THEN 0 - n ELSE n

RECURSIVE Pow10(_)
Pow10(n) == IF n <= 0 THEN 1 ELSE 10 * Pow10(n - 1)

\* position of the first occurrence of p in s, 0 when there is none
Find(s, p) == IF Contains(s, p) THEN CHOOSE i \in 1..(Len(s) + 1) :
                                         HasAt(s, i, p) /\ \A j \in 1..(i - 1) : ~HasAt(s, j, p)
              ELSE 0

InvalidDecimal == [kind |-> "invalid", sign |-> 0, coeff |-> 0, exp |-> 0]

\* the number of the digits ipart.fpart with the exponent expo
DecFinite(sign, ipart, fpart, expo) ==
    IF /\ ipart \o fpart # ""
       /\ IsDigitStr(ipart \o fpart)
       /\ IsDigitStr(Unsigned(expo))
    THEN [kind |-> "finite", sign |-> sign, coeff |-> NatOf(ipart \o fpart),
          exp |-> (IF Ch(expo, 1) = "-" THEN 0 - NatOf(Unsigned(expo))
                   ELSE NatOf(Unsigned(expo))) - Len(fpart)]
    ELSE InvalidDecimal

\* the mantissa split at its point, at position d (0: no point)
DecMantissa(sign, mant, expo, d) ==
    DecFinite(sign,
              IF d = 0 THEN mant ELSE SubSeq(mant, 1, d - 1),
              IF d = 0 THEN "" ELSE SubSeq(mant, d + 1, Len(mant)),
              expo)

\* the literal b split at its exponent mark, at position e (0: no mark)
DecExponent(sign, b, e) ==
    DecMantissa(sign,
                IF e = 0 THEN b ELSE SubSeq(b, 1, e - 1),
                IF e = 0 THEN "0" ELSE SubSeq(b, e + 1, Len(b)),
                Find(IF e = 0 THEN b ELSE SubSeq(b, 1, e - 1), "."))

\* the unsigned literal b: infinity, a NaN or a number
DecUnsigned(sign, b) ==
    IF b \in {"inf", "infinity"} THEN [kind |-> "inf", sign |-> sign, coeff |-> 0, exp |-> 0]
    ELSE IF (StartsWith(b, "nan") /\ (Len(b) = 3 \/ IsDigitStr(SubSeq(b, 4, Len(b)))))
            \/ (StartsWith(b, "snan") /\ (Len(b) = 4 \/ IsDigitStr(SubSeq(b, 5, Len(b)))))
         THEN [kind |-> "nan", sign |-> sign, coeff |-> 0, exp |-> 0]
    ELSE DecExponent(sign, b, Find(b, "e"))

\* the literal t, trimmed, in lower case, without underscores
DecLiteral(t) == DecUnsigned(IF Ch(t, 1) = "-" THEN 1 ELSE 0, Unsigned(t))

\* decimal.Decimal(s): [kind, sign, coeff, exp]; kind is "invalid" when the
\* constructor raises InvalidOperation
DecParse(s) == DecLiteral(Lower(Replace(Strip(s), "_", "")))

IsDecimal(s) == DecParse(s).kind # "invalid"

\* Decimal < int; a NaN operand raises InvalidOperation (kind "raise")
DecLess(d, n) ==
    IF d.kind = "inf" THEN d.sign = 1
    ELSE LET v == IF d.sign = 1 THEN 0 - d.coeff ELSE d.coeff
         IN IF d.exp >= 0 THEN v * Pow10(d.exp) < n ELSE v < n * Pow10(0 - d.exp)

\* Decimal + k for an int k; negzero tells the sign of k when k is zero
DecAdd(d, k, negzero) ==
    IF d.kind # "finite" THEN d
    ELSE LET e == IF d.exp < 0 THEN d.exp ELSE 0
             v == (IF d.sign = 1 THEN 0 - d.coeff ELSE d.coeff) * Pow10(d.exp - e)
                      + k * Pow10(0 - e)
         IN [kind |-> "finite",
             sign |-> IF v < 0 \/ (v = 0 /\ d.coeff = 0 /\ k = 0 /\ d.sign = 1 /\ negzero)
                      THEN 1 ELSE 0,
             coeff |-> IF v < 0 THEN 0 - v ELSE v,
             exp |-> e]

RECURSIVE Zeros(_)
Zeros(n) == IF n <= 0 THEN "" ELSE "0" \o Zeros(n - 1)

\* the digits int laid out with dotplace of them before the point
DecLayout(sg, int, leftdigits, dotplace) ==
    sg \o (IF dotplace <= 0 THEN "0"
           ELSE IF dotplace >= Len(int) THEN int \o Zeros(dotplace - Len(int))
           ELSE SubSeq(int, 1, dotplace))
       \o (IF dotplace <= 0 THEN "." \o Zeros(0 - dotplace) \o int
           ELSE IF dotplace >= Len(int) THEN ""
           ELSE "." \o SubSeq(int, dotplace + 1, Len(int)))
       \o (IF leftdigits = dotplace THEN ""
           ELSE "E" \o (IF leftdigits - dotplace >= 0 THEN "+" ELSE "")
                    \o IntStr(leftdigits - dotplace))

DecPlaced(sg, exp, int, leftdigits) ==
    DecLayout(sg, int, leftdigits, IF exp <= 0 /\ leftdigits > -6 THEN leftdigits ELSE 1)

DecDigits(sg, exp, int) == DecPlaced(sg, exp, int, exp + Len(int))

\* str(Decimal)
DecStr(d) ==
    IF d.kind = "inf" THEN (IF d.sign = 1 THEN "-" ELSE "") \o "Infinity"
    ELSE IF d.kind = "nan" THEN (IF d.sign = 1 THEN "-" ELSE "") \o "NaN"
    ELSE DecDigits(IF d.sign = 1 THEN "-" ELSE "", d.exp, NatStr(d.coeff))

\* ------------------------------------------------------------------------
\* datetime.strptime, datetime + timedelta(days), datetime.strftime
\* ------------------------------------------------------------------------

IsLeap(y) == (y % 4 = 0 /\ y % 100 # 0) \/ y % 400 = 0

DaysInMonth(y, m) ==
    IF m = 2 THEN (IF IsLeap(y) THEN 29 ELSE 28)
    ELSE IF m \in {4, 6, 9, 11} THEN 30 ELSE 31

RECURSIVE DigitRunEnd(_, _)
\* the last position of the run of digits that starts at i (i - 1: no digit at i)
DigitRunEnd(s, i) == IF Ch(s, i) \in DigitSet THEN DigitRunEnd(s, i + 1) ELSE i - 1

RECURSIVE SpaceRunEnd(_, _)
SpaceRunEnd(s, i) == IF IsSpace(Ch(s, i)) THEN SpaceRunEnd(s, i + 1) ELSE i - 1

NoField == [ok |-> FALSE, val |-> 0, next |-> 0]

\* a run of n digits of value v read for the directive dir
FieldDigits(dir, n, v, next) ==
    IF /\ n >= 1
       /\ \/ dir = "Y" /\ n = 4
          \/ dir = "y" /\ n = 2
          \/ dir = "m" /\ n <= 2 /\ v >= 1 /\ v <= 12
          \/ dir = "d" /\ n <= 2 /\ v >= 1 /\ v <= 31
          \/ dir = "H" /\ n <= 2 /\ v <= 23
          \/ dir = "M" /\ n <= 2 /\ v <= 59
          \/ dir = "S" /\ n <= 2 /\ v <= 61
    THEN [ok |-> TRUE, next |-> next,
          val |-> IF dir = "y" THEN (IF v <= 68 THEN 2000 + v ELSE 1900 + v) ELSE v]
    ELSE NoField

\* the run of digits from i to e
DigitRun(s, i, dir, e) == FieldDigits(dir, e - i + 1, NatOf(SubSeq(s, i, e)), e + 1)

\* the field a directive reads at position i: [ok, val, next].  The fields
\* of the formats below are each followed by a separator or the end, so the
\* regular expression of a directive matches the whole run of digits or
\* the parse fails.
Field(s, i, dir) ==
    IF dir = "d" /\ Ch(s, i) = " " /\ DigitRunEnd(s, i + 1) = i + 1 /\ Ch(s, i + 1) # "0"
    THEN [ok |-> TRUE, val |-> NatOf(Ch(s, i + 1)), next |-> i + 2]
    ELSE DigitRun(s, i, dir, DigitRunEnd(s, i))

NoDate == [ok |-> FALSE, Y |-> 1900, m |-> 1, d |-> 1, H |-> 0, M |-> 0, S |-> 0]

SetField(dt, dir, v) ==
    IF dir \in {"Y", "y"} THEN [dt EXCEPT !.Y = v]
    ELSE IF dir = "m" THEN [dt EXCEPT !.m = v]
    ELSE IF dir = "d" THEN [dt EXCEPT !.d = v]
    ELSE IF dir = "H" THEN [dt EXCEPT !.H = v]
    ELSE IF dir = "M" THEN [dt EXCEPT !.M = v]
    ELSE [dt EXCEPT !.S = v]

RECURSIVE StrpFrom(_, _, _, _, _)
RECURSIVE StrpField(_, _, _, _, _)
\* the parse after the field f was read for the directive at j
StrpField(s, fmt, j, dt, f) ==
    IF f.ok THEN StrpFrom(s, f.next, fmt, j + 2, SetField(dt, Ch(fmt, j + 1), f.val))
    ELSE NoDate

StrpFrom(s, i, fmt, j, dt) ==
    IF j > Len(fmt) THEN [dt EXCEPT !.ok = (i > Len(s))]
    ELSE IF Ch(fmt, j) = "%" THEN StrpField(s, fmt, j, dt, Field(s, i, Ch(fmt, j + 1)))
    ELSE IF Ch(fmt, j) = " "
         THEN IF SpaceRunEnd(s, i) >= i THEN StrpFrom(s, SpaceRunEnd(s, i) + 1, fmt, j + 1, dt)
              ELSE NoDate
    ELSE IF Ch(s, i) = Ch(fmt, j) THEN StrpFrom(s, i + 1, fmt, j + 1, dt)
    ELSE NoDate

\* the fields read make a date
Checked(dt) ==
    IF dt.ok /\ dt.Y >= 1 /\ dt.d <= DaysInMonth(dt.Y, dt.m) /\ dt.S <= 59 THEN dt ELSE NoDate

\* datetime.strptime(s, fmt): .ok is FALSE when it raises ValueError
Strptime(s, fmt) == Checked(StrpFrom(s, 1, fmt, 1, [NoDate EXCEPT !.ok = TRUE]))

\* the first day of the month after dt's
NextMonth(dt) ==
    IF dt.m < 12 THEN [dt EXCEPT !.d = 1, !.m = @ + 1]
    ELSE [dt EXCEPT !.d = 1, !.m = 1, !.Y = @ + 1]

\* the last day of the month before dt's
PrevMonth(dt) ==
    IF dt.m > 1 THEN [dt EXCEPT !.d = DaysInMonth(dt.Y, dt.m - 1), !.m = @ - 1]
    ELSE [dt EXCEPT !.d = 31, !.m = 12, !.Y = @ - 1]

RECURSIVE AddDays(_, _)
\* dt + timedelta(days=n), a month at a time; .ok is FALSE when the date
\* leaves years 1..9999 (OverflowError)
AddDays(dt, n) ==
    IF dt.Y < 1 \/ dt.Y > 9999 THEN [dt EXCEPT !.ok = FALSE]
    ELSE IF n >= 0
         THEN IF dt.d + n <= DaysInMonth(dt.Y, dt.m) THEN [dt EXCEPT !.d = @ + n]
              ELSE AddDays(NextMonth(dt), n - (DaysInMonth(dt.Y, dt.m) - dt.d + 1))
    ELSE IF dt.d + n >= 1 THEN [dt EXCEPT !.d = @ + n]
    ELSE AddDays(PrevMonth(dt), n + dt.d)

Two(n) == IF n < 10 THEN "0" \o NatStr(n) ELSE NatStr(n)

\* what a directive prints; the C library decides whether %Y of a year
\* below 1000 is padded to four digits (pad) or printed as it is (glibc)
Directive(dt, dir, pad) ==
    IF dir = "Y" THEN (IF pad THEN Zeros(4 - Len(NatStr(dt.Y))) ELSE "") \o NatStr(dt.Y)
    ELSE IF dir = "y" THEN Two(dt.Y % 100)
    ELSE IF dir = "m" THEN Two(dt.m)
    ELSE IF dir = "d" THEN Two(dt.d)
    ELSE IF dir = "H" THEN Two(dt.H)
    ELSE IF dir = "M" THEN Two(dt.M)
    ELSE Two(dt.S)

RECURSIVE StrfFrom(_, _, _, _)
StrfFrom(dt, fmt, j, pad) ==
    IF j > Len(fmt) THEN ""
    ELSE IF Ch(fmt, j) = "%"
         THEN Directive(dt, Ch(fmt, j + 1), pad) \o StrfFrom(dt, fmt, j + 2, pad)
    ELSE Ch(fmt, j) \o StrfFrom(dt, fmt, j + 1, pad)

\* datetime.strftime(dt, fmt)
Strftime(dt, fmt, pad) == StrfFrom(dt, fmt, 1, pad)

\* ------------------------------------------------------------------------
\* MacroDef
\* ------------------------------------------------------------------------

valid_date_formats ==
    <<"%Y-%m-%d", "%Y-%m-%d", "%y-%m-%d", "%d/%m/%Y", "%Y/%m/%d",
      "%Y/%m/%d %H:%M:%S", "%Y-%m-%d %H:%M:%S">>

\* dateutil.parser.parse(s) succeeds.  The library is lenient: it accepts
\* every string one of valid_date_formats accepts; what else it accepts
\* does not change the result of infer_date_format.
LenientParse(s) == \E k \in 1..Len(valid_date_formats) : Strptime(s, valid_date_formats[k]).ok

RECURSIVE TryFormats(_, _, _)
\* the loop over valid_date_formats: every format is tried, the last one
\* that parses stays in _type
TryFormats(s, k, type) ==
    IF k > Len(valid_date_formats) THEN type
    ELSE TryFormats(s, k + 1,
            IF Strptime(s, valid_date_formats[k]).ok
            THEN "datetime:" \o valid_date_formats[k] ELSE type)

\* the test that ends infer_date_format
DatetimeOrNone(t) == IF StartsWith(t, "datetime:") THEN t ELSE ""

\* MacroDef.infer_date_format: the type, or "" when it raises ValueError
InferDateFormat(s) ==
    IF ~LenientParse(s) THEN "" ELSE DatetimeOrNone(TryFormats(s, 1, "string"))

\* the four attempts of guess_macro_type, each on the _type the previous
\* ones left
GuessInteger(def, type) == IF IsInt(def) THEN "integer" ELSE type

\* the decimal attempt made whatever the integer attempt found: a variant
\* the order of the attempts must tell from guess_macro_type
GuessDecimalUnguarded(def, type) == IF IsDecimal(def) THEN "decimal" ELSE type

GuessDecimal(def, type) == IF type = "string" /\ IsDecimal(def) THEN "decimal" ELSE type

Inferred(fmt, type) == IF fmt # "" THEN fmt ELSE type

GuessDatetime(def, type) ==
    IF type = "string" THEN Inferred(InferDateFormat(def), type) ELSE type

GuessDatabase(def, type) ==
    IF type = "string" /\ EndsWith(def, "_MM2_CY2") THEN "database" ELSE type

\* MacroDef.guess_macro_type
GuessMacroType(def) ==
    GuessDatabase(def, GuessDatetime(def, GuessDecimal(def, GuessInteger(def, "string"))))

\* self.quote
Quote(def) == StartsWith(def, "'") /\ EndsWith(def, "'")

\* MacroDef(name, expansion_def)
MacroDef(name, expansion_def) ==
    [name |-> name,
     expansion_def |-> Strip(expansion_def),
     macro_type |-> GuessMacroType(Strip(expansion_def)),
     quote |-> Quote(Strip(expansion_def)),
     expansion |-> Strip(expansion_def)]

\* random.randint(0, 120)
MAX_RAND == 120

\* the draws of random.randint(0, MAX_RAND) the model follows
RandInts == {0, 1, MAX_RAND}

RECURSIVE RandRuns(_)
\* "".join(random.choice(self.char_rnd) for _ in range(n)): every outcome
RandRuns(n) == IF n <= 0 THEN {""} ELSE {c \o r : c \in CHAR_CPLX, r \in RandRuns(n - 1)}

Raised(exc) == [raised |-> exc, value |-> ""]

Returned(v) == [raised |-> "", value |-> v]

\* MacroDef.try_uncollide_int_or_decimal on an int, with r the random draw
UncollideInt(value, r) == Returned(IntStr(IF value < 32000 THEN value - r ELSE value + r))

\* MacroDef.try_uncollide_int_or_decimal on a Decimal
UncollideDecimal(d, r) ==
    IF d.kind = "nan" THEN Raised("InvalidOperation")
    ELSE Returned(DecStr(IF DecLess(d, 32000) THEN DecAdd(d, 0 - r, TRUE) ELSE DecAdd(d, r, FALSE)))

\* datetime.strftime of the moved date
Printed(moved, datetime_fmt, pad) ==
    IF ~moved.ok THEN Raised("OverflowError") ELSE Returned(Strftime(moved, datetime_fmt, pad))

\* the parsed date moved by r days, back from year 9999, forward otherwise
Moved(dt, datetime_fmt, r, pad) ==
    IF ~dt.ok THEN Raised("ValueError")
    ELSE Printed(AddDays(dt, IF dt.Y = 9999 THEN 0 - r ELSE r), datetime_fmt, pad)

\* MacroDef.try_uncollide_datetime
UncollideDatetime(datetime_str, datetime_fmt, r, pad) ==
    Moved(Strptime(datetime_str, datetime_fmt), datetime_fmt, r, pad)

\* position of the first alphanumeric character of value, 0 when none
FirstAlnum(value) ==
    IF \E i \in 1..Len(value) : IsAlnum(Ch(value, i))
    THEN CHOOSE i \in 1..Len(value) :
             IsAlnum(Ch(value, i)) /\ \A j \in 1..(i - 1) : ~IsAlnum(Ch(value, j))
    ELSE 0

\* MacroDef.try_uncollide_string with join = "": rnd_part is the random run
UncollideString(value, rnd_part) ==
    LET ci == FirstAlnum(value)
    IN IF ci = 0 THEN Returned(rnd_part \o value)
       ELSE Returned(SubSeq(value, 1, ci - 1) \o rnd_part
                        \o SubSeq(value, ci + Len(rnd_part), Len(value)))

\* MacroDef.try_uncollide(cplx) under the draws r (randint), rnd_part (the
\* random run of cplx characters) and pad (%Y of the C library)
TryUncollide(m, r, rnd_part, pad) ==
    IF m.macro_type = "integer" THEN UncollideInt(IntVal(m.expansion_def), r)
    ELSE IF m.macro_type = "decimal" THEN UncollideDecimal(DecParse(m.expansion_def), r)
    ELSE IF StartsWith(m.macro_type, "datetime:")
         THEN UncollideDatetime(m.expansion_def,
                                SubSeq(m.macro_type, 10, Len(m.macro_type)), r, pad)
    ELSE IF m.macro_type = "string" THEN UncollideString(m.expansion_def, rnd_part)
    ELSE Returned(m.expansion_def)

\* every outcome of try_uncollide(cplx): only the branch the type selects
\* draws, a string the random run, a number or a date the offset
Uncollisions(m, cplx) ==
    IF m.macro_type = "string"
    THEN {TryUncollide(m, 0, run, FALSE) : run \in RandRuns(cplx)}
    ELSE {TryUncollide(m, r, "", pad) : r \in RandInts, pad \in BOOLEAN}

\* ------------------------------------------------------------------------
\* Helpers of OfrMapBasedExpander.expand / unexpand
\* ------------------------------------------------------------------------

\* s has p at position i, ignoring case
HasAtIgnoreCase(s, i, p) ==
    i >= 1 /\ i + Len(p) - 1 <= Len(s) /\ Lower(SubSeq(s, i, i + Len(p) - 1)) = Lower(p)

RECURSIVE BlankRunEnd(_, _)
\* the last position of the run of " " that starts at i (i - 1: none)
BlankRunEnd(s, i) == IF Ch(s, i) = " " THEN BlankRunEnd(s, i + 1) ELSE i - 1

\* "insert +into" matches at position i, ignoring case
InsertAt(s, i) ==
    /\ HasAtIgnoreCase(s, i, "insert")
    /\ BlankRunEnd(s, i + 6) >= i + 6
    /\ HasAtIgnoreCase(s, BlankRunEnd(s, i + 6) + 1, "into")

RECURSIVE CountInsertFrom(_, _)
CountInsertFrom(s, i) ==
    LET hits == {j \in i..Len(s) : InsertAt(s, j)}
    IN IF hits = {} THEN 0
       ELSE 1 + CountInsertFrom(s, BlankRunEnd(s, Least(hits) + 6) + 5)

\* len(re.findall("insert +into", text, flags=re.IGNORECASE))
CountInsert(s) == CountInsertFrom(s, 1)

\* the key of a macro in the yaml map
Key(name) == "${" \o name \o "}"

\* the placeholder written by unexpand
Placeholder(name) == "{" \o name \o "}"

\* "'" value " *'" matches at position i, ignoring case
QuotedAt(s, i, value) ==
    /\ Ch(s, i) = "'"
    /\ HasAtIgnoreCase(s, i + 1, value)
    /\ Ch(s, BlankRunEnd(s, i + 1 + Len(value)) + 1) = "'"

RECURSIVE SubQuotedFrom(_, _, _, _)
SubQuotedFrom(s, i, value, repl) ==
    LET hits == {j \in i..Len(s) : QuotedAt(s, j, value)}
        j == Least(hits)
    IN IF hits = {} THEN SubSeq(s, i, Len(s))
       ELSE SubSeq(s, i, j - 1) \o repl
                \o SubQuotedFrom(s, BlankRunEnd(s, j + 1 + Len(value)) + 2, value, repl)

\* re.sub("'" + re.escape(value) + " *'", "'{name}'", s, flags=re.IGNORECASE)
SubQuoted(s, value, name) == SubQuotedFrom(s, 1, value, "'" \o Placeholder(name) \o "'")

\* lines 280-288: the quoted value, then the value as it is, in lower
\* case and in upper case
CaseVariants(s, m) ==
    Replace(Replace(Replace(SubQuoted(s, m.expansion, m.name),
                            m.expansion, Placeholder(m.name)),
                    Lower(m.expansion), Placeholder(m.name)),
            Upper(m.expansion), Placeholder(m.name))

\* the body of the loop of unexpand over one macro
UnexpandOne(s, m) ==
    IF Contains(m.expansion, "','")
    THEN Replace(CaseVariants(s, m), Replace(m.expansion, "','", "', '"), Placeholder(m.name))
    ELSE CaseVariants(s, m)

\* the definitions in the order of the dict: a variant the order of
\* unexpand must tell from the sort by length
Unsorted(defs) == defs

RECURSIVE SortedByLen(_)
\* sorted(defs, key=lambda m: len(m.expansion), reverse=True): stable, so
\* definitions of equal length keep the order of the dict
SortedByLen(defs) ==
    IF defs = <<>> THEN <<>>
    ELSE LET k == CHOOSE i \in 1..Len(defs) :
                     /\ \A j \in 1..Len(defs) : Len(defs[j].expansion) <= Len(defs[i].expansion)
                     /\ \A j \in 1..(i - 1) : Len(defs[j].expansion) < Len(defs[i].expansion)
         IN <<defs[k]>> \o SortedByLen(SubSeq(defs, 1, k - 1) \o SubSeq(defs, k + 1, Len(defs)))

RECURSIVE UnexpandAll(_, _)
UnexpandAll(s, ordered) ==
    IF ordered = <<>> THEN s ELSE UnexpandAll(UnexpandOne(s, Head(ordered)), Tail(ordered))

\* the text unexpand returns after its header
Restore(s, defs) == Replace(UnexpandAll(s, SortedByLen(defs)), "__DEFAULT_DATABASE__.", "")

\* self.macros_used_def[macrod.name] = macrod on the insertion-ordered dict
Put(defs, m) ==
    IF m.name \in Keys(defs)
    THEN [k \in 1..Len(defs) |-> IF defs[k].name = m.name THEN m ELSE defs[k]]
    ELSE Append(defs, m)

\* one line of pbs / macro_problem
Line(level, what, name, value, count, output, obscured) ==
    [level |-> level, what |-> what, name |-> name, value |-> value,
     count |-> count, output |-> output, obscured |-> obscured]

\* the audit with the lost macro an error whatever its type: a variant the
\* severities of the audit must tell from unexpand
AuditLineUntyped(s, u, m) ==
    LET out == Count(s, Placeholder(u.name))
    IN IF out < u.count
       THEN <<Line("error", "lost", u.name, m.expansion, u.count, out, <<>>)>>
       ELSE IF out > u.count
            THEN <<Line("warning", "more", u.name, "", u.count, out, <<>>)>>
       ELSE <<>>

\* the line the recovery audit adds for one used macro, <<>> when none
AuditLine(s, u, m) ==
    LET out == Count(s, Placeholder(u.name))
    IN IF out < u.count
       THEN IF m.macro_type = "database"
            THEN <<Line("warning", "lost", u.name, "", u.count, out, <<>>)>>
            ELSE <<Line("error", "lost", u.name, m.expansion, u.count, out, <<>>)>>
       ELSE IF out > u.count
            THEN <<Line("warning", "more", u.name, "", u.count, out, <<>>)>>
       ELSE <<>>

RECURSIVE Audit(_, _, _)
\* the loop "check macro count on output" over self.used_macro.items()
Audit(s, used, defs) ==
    IF used = <<>> THEN <<>>
    ELSE AuditLine(s, Head(used), Get(defs, Head(used).name)) \o Audit(s, Tail(used), defs)

\* d is a database of the value of m
SameDatabase(d, m) == d.macro_type = "database" /\ d.expansion = m.expansion

\* the macros of the file, other than name, that the map declares with a
\* database value equal to m's
Obscured(used, maps, name, m) ==
    SelectSeq([k \in 1..Len(used) |-> used[k].name],
              LAMBDA dn : /\ dn # name
                          /\ Key(dn) \in DOMAIN maps
                          /\ SameDatabase(MacroDef(dn, maps[Key(dn)]), m))

\* the report of a remaining collision without the database case: a
\* variant the database diagnostic must tell from expand
CollideLineUntyped(s, used, maps, name, m) ==
    IF ~SearchIgnoreCase(m.expansion, s) THEN <<>>
    ELSE <<Line("warning", "collide", name, m.expansion, 0, 0, <<>>)>>

\* the entry expand adds to macro_problem after the loop, <<>> when none
CollideLine(s, used, maps, name, m) ==
    IF ~SearchIgnoreCase(m.expansion, s) THEN <<>>
    ELSE IF m.macro_type = "database"
         THEN <<Line("warning", "database collide", name, m.expansion, 0, 0,
                     Obscured(used, maps, name, m))>>
    ELSE <<Line("warning", "collide", name, m.expansion, 0, 0, <<>>)>>

\* the external translator, seen from here: what it may do to a text
Translations == {"noop", "lower", "upper", "drop", "dup"}

Translate(kind, s) ==
    IF kind = "lower" THEN Lower(s)
    ELSE IF kind = "upper" THEN Upper(s)
    ELSE IF kind = "drop" THEN ""
    ELSE IF kind = "dup" THEN s \o " " \o s
    ELSE s

RECURSIVE Fnmatch(_, _)
\* fnmatch.fnmatch(name, pat) for a pattern of characters and "*"
Fnmatch(name, pat) ==
    IF pat = "" THEN name = ""
    ELSE IF Ch(pat, 1) = "*"
         THEN \/ Fnmatch(name, SubSeq(pat, 2, Len(pat)))
              \/ name # "" /\ Fnmatch(SubSeq(name, 2, Len(name)), pat)
    ELSE /\ name # ""
         /\ Ch(name, 1) = Ch(pat, 1)
         /\ Fnmatch(SubSeq(name, 2, Len(name)), SubSeq(pat, 2, Len(pat)))

\* reg_pattern_map[key] = value for every key of token_map
Updated(reg_pattern_map, token_map) ==
    [k \in DOMAIN reg_pattern_map \cup DOMAIN token_map |->
        IF k \in DOMAIN token_map THEN token_map[k] ELSE reg_pattern_map[k]]

RECURSIVE RegPatternMap(_, _, _, _)
\* the loop of MapBasedExpander._get_all_regex_pattern_mapping over the
\* entries of the catalog from the i-th on: every pattern that matches the
\* path writes its macros into reg_pattern_map
RegPatternMap(catalog, path, i, reg_pattern_map) ==
    IF i > Len(catalog) THEN reg_pattern_map
    ELSE RegPatternMap(catalog, path, i + 1,
             IF Fnmatch(path, catalog[i].pattern)
             THEN Updated(reg_pattern_map, catalog[i].macros)
             ELSE reg_pattern_map)

\* ------------------------------------------------------------------------
\* The expander and the files it works on
\* ------------------------------------------------------------------------

VARIABLES
    yaml,                           \* the "*.sql" map as the yaml file declares it
    macro_expansion_maps,           \* self.macro_expansion_maps: the maps of the yaml file by
                                    \* pattern, an insertion-ordered dict
    files,                          \* path -> text of the source file on disk
    generic_macro_expansion_maps,   \* the "*.sql" map of the yaml file: "${NAME}" -> value
    macros_used_def,                \* self.macros_used_def: insertion-ordered dict of MacroDef
    used_macro,                     \* self.used_macro: insertion-ordered dict name -> count
    macro_problem,                  \* self.macro_problem
    file_path,                      \* self.file_path; NoFile until expand assigns it
    stats_statement,                \* self.stats_statement (the count read back: "insert")
    pc,                             \* where the running expand call is; "idle" between calls
    text,                           \* _text of the running expand
    todo,                           \* the names the for loop of expand has still to take
    macrod,                         \* macrod of the running expand
    nb_try,                         \* nb_try of the running expand
    tmp,                            \* path -> text expand returned for it (written by the caller)
    expanded,                       \* the paths expand has returned for
    out,                            \* what the last call read and returned, if it was unexpand
    error,                          \* the exception the last call raised, "" when it returned
    recorded                        \* history: path -> what the last expand of that path recorded

vars == <<yaml, macro_expansion_maps, files, generic_macro_expansion_maps, macros_used_def, used_macro, macro_problem,
          file_path, stats_statement, pc, text, todo, macrod, nb_try, tmp, expanded, out,
          error, recorded>>

NoFile == ""

NoMacro == [name |-> "", expansion_def |-> "", macro_type |-> "", quote |-> FALSE, expansion |-> ""]

NoOut == [path |-> NoFile, known |-> FALSE, input |-> "", text |-> "", used_vars |-> <<>>,
          pbs |-> <<>>, used |-> <<>>, defs |-> <<>>]

NoRecord == [used |-> <<>>, defs |-> <<>>, problems |-> <<>>]

nb_try_max == 100

\* round(cplx) + 1 with cplx = nb_try / 10 if nb_try < 50 else nb_try / 5;
\* round() takes a half to the even neighbour
Cplx(n) ==
    IF n < 50
    THEN (IF n % 10 < 5 \/ (n % 10 = 5 /\ (n \div 10) % 2 = 0) THEN n \div 10 ELSE n \div 10 + 1) + 1
    ELSE (IF n % 5 <= 2 THEN n \div 5 ELSE n \div 5 + 1) + 1

\* rnd_str of a macro the map does not declare: every outcome
FallbackStrings(name) ==
    IF name = "KNB_BATCH_DATE" THEN {"2021-01-02 11:22:33"}
    ELSE IF name = "KNB_BATCH_NAME" THEN RandRuns(8)
    ELSE RandRuns(1)

RECURSIVE Concats(_, _)
\* the texts made of at most n of the tokens
Concats(tokens, n) ==
    IF n = 0 THEN {""}
    ELSE Concats(tokens, n - 1) \cup {t \o k : t \in Concats(tokens, n - 1), k \in tokens}

\* the attributes __init__ sets apart from the maps, and the files of the job
InitRest(texts) ==
    /\ files \in texts
    /\ macros_used_def = <<>>
    /\ used_macro = <<>>
    /\ macro_problem = <<>>
    /\ file_path = NoFile
    /\ stats_statement = [insert |-> 0]
    /\ pc = "idle"
    /\ text = ""
    /\ todo = <<>>
    /\ macrod = NoMacro
    /\ nb_try = 0
    /\ tmp = [f \in DOMAIN files |-> ""]
    /\ expanded = {}
    /\ out = NoOut
    /\ error = ""
    /\ recorded = [f \in DOMAIN files |-> NoRecord]

GenericPattern == "*.sql"

\* line 160: self.macro_expansion_maps["*.sql"]
Generic(catalog) ==
    catalog[CHOOSE k \in 1..Len(catalog) : catalog[k].pattern = GenericPattern].macros

\* generic_macro_expansion_maps is the dict object of the "*.sql" entry:
\* what expand stores in the one shows in the other
Aliased(catalog, generic) ==
    [k \in 1..Len(catalog) |->
        IF catalog[k].pattern = GenericPattern THEN [catalog[k] EXCEPT !.macros = generic]
        ELSE catalog[k]]

\* the state after OfrMapBasedExpander(yaml_file_path), for a yaml file and
\* source files drawn from the given sets
InitOf(catalogs, texts) ==
    /\ macro_expansion_maps \in catalogs
    /\ yaml = Generic(macro_expansion_maps)
    /\ generic_macro_expansion_maps = yaml
    /\ InitRest(texts)

\* the same for a yaml file with the "*.sql" pattern alone
InitWith(maps, texts) == InitOf({<<[pattern |-> GenericPattern, macros |-> m]>> : m \in maps}, texts)

\* expand(text, path_dir, path_name), lines 182-187: the file is read from
\* disk, the references counted, the per-call attributes reset.  The job
\* walks the input directory once: a file is not expanded again once
\* expand has returned for it.  No caller catches what expand or unexpand
\* raises: the job ends there.
Expand(f) ==
    /\ pc = "idle"
    /\ error = ""
    /\ f \notin expanded
    /\ macro_problem' = <<>>
    /\ file_path' = f
    /\ text' = files[f]
    /\ used_macro' = UsedMacros(files[f])
    /\ todo' = Sorted(Keys(UsedMacros(files[f])))
    /\ pc' = "for"
    /\ error' = ""
    /\ out' = NoOut
    /\ UNCHANGED <<yaml, macro_expansion_maps, files, generic_macro_expansion_maps, macros_used_def, stats_statement,
                   macrod, nb_try, tmp, expanded, recorded>>

\* the test of line 189 that never finds the name: a variant the
\* memoization of the fallback values must tell from expand
MissingAlways(maps, name) == TRUE

\* line 189: the map has no value for the name
Missing(maps, name) == Key(name) \notin DOMAIN maps

\* lines 188-220: the next name of the for loop; a name the map lacks gets
\* a random value, stored in the map, and a "not defined" problem
ForMacro ==
    /\ pc = "for"
    /\ todo # <<>>
    /\ LET name == Head(todo)
           missing == Missing(generic_macro_expansion_maps, name)
       IN \E rnd_str \in (IF missing THEN FallbackStrings(name) ELSE {""}) :
            /\ generic_macro_expansion_maps' =
                   IF missing
                   THEN [k \in DOMAIN generic_macro_expansion_maps \cup {Key(name)} |->
                            IF k = Key(name) THEN rnd_str ELSE generic_macro_expansion_maps[k]]
                   ELSE generic_macro_expansion_maps
            /\ macro_problem' =
                   IF missing
                   THEN Append(macro_problem, Line("warning", "not defined", name, rnd_str, 0, 0, <<>>))
                   ELSE macro_problem
            /\ macrod' = MacroDef(name, generic_macro_expansion_maps'[Key(name)])
    /\ macro_expansion_maps' = Aliased(macro_expansion_maps, generic_macro_expansion_maps')
    /\ nb_try' = 0
    /\ pc' = "while"
    /\ UNCHANGED <<yaml, files, macros_used_def, used_macro, file_path, stats_statement, text, todo,
                   tmp, expanded, out, error, recorded>>

\* what one evaluation of the while loop (lines 221-229) does once its
\* condition holds: count the attempt, then break or perturb
Attempt(m, n) ==
    IF m.macro_type = "database" \/ n > nb_try_max
    THEN {[pc |-> "after", macrod |-> m, error |-> ""]}
    ELSE {IF o.raised # "" THEN [pc |-> "idle", macrod |-> NoMacro, error |-> o.raised]
          ELSE [pc |-> "while", macrod |-> [m EXCEPT !.expansion = o.value], error |-> ""]
          : o \in Uncollisions(m, Cplx(n))}

\* lines 221-229: one evaluation of the while loop
While ==
    /\ pc = "while"
    /\ IF SearchIgnoreCase(macrod.expansion, text)
       THEN \E a \in Attempt(macrod, nb_try + 1) :
               /\ pc' = a.pc
               /\ macrod' = a.macrod
               /\ error' = a.error
               /\ nb_try' = IF a.pc = "idle" THEN 0 ELSE nb_try + 1
               /\ text' = IF a.pc = "idle" THEN "" ELSE text
               /\ todo' = IF a.pc = "idle" THEN <<>> ELSE todo
       ELSE /\ pc' = "after"
            /\ UNCHANGED <<macrod, error, nb_try, text, todo>>
    /\ UNCHANGED <<yaml, macro_expansion_maps, files, generic_macro_expansion_maps, macros_used_def, used_macro,
                   macro_problem, file_path, stats_statement, tmp, expanded, out, recorded>>

\* lines 231-262: report a remaining collision, count the statements,
\* store the definition, substitute both spellings of the reference
Substitute ==
    /\ pc = "after"
    /\ macro_problem' = macro_problem
           \o CollideLine(text, used_macro, generic_macro_expansion_maps, Head(todo), macrod)
    /\ stats_statement' = [insert |-> CountInsert(text)]
    /\ macros_used_def' = Put(macros_used_def, macrod)
    /\ text' = Replace(Replace(text, Key(Head(todo)), macrod.expansion),
                       "$" \o Head(todo), macrod.expansion)
    /\ todo' = Tail(todo)
    /\ macrod' = NoMacro
    /\ nb_try' = 0
    /\ pc' = "for"
    /\ UNCHANGED <<yaml, macro_expansion_maps, files, generic_macro_expansion_maps, used_macro, file_path, tmp, expanded,
                   out, error, recorded>>

\* line 263: return _text; the caller stores it for the translator
Return ==
    /\ pc = "for"
    /\ todo = <<>>
    /\ tmp' = [tmp EXCEPT ![file_path] = text]
    /\ expanded' = expanded \cup {file_path}
    /\ recorded' = [recorded EXCEPT ![file_path] =
                       [used |-> used_macro, defs |-> macros_used_def, problems |-> macro_problem]]
    /\ text' = ""
    /\ pc' = "idle"
    /\ UNCHANGED <<yaml, macro_expansion_maps, files, generic_macro_expansion_maps, macros_used_def, used_macro,
                   macro_problem, file_path, stats_statement, todo, macrod, nb_try, out, error>>

\* the "lost some insert" line of unexpand, <<>> when none
InsertLine(s, stats) ==
    IF CountInsert(s) < stats.insert
    THEN <<Line("warning", "lost insert", "", "", 0, 0, <<>>)>> ELSE <<>>

\* the lines of the header after USED_VARS
Pbs(s, used, defs, stats, problems) == Audit(s, used, defs) \o InsertLine(s, stats) \o problems

\* what unexpand read and what it returns: the restored text and, of the
\* header, USED_VARS and the lines behind it
Returns(f, input, restored) ==
    [path |-> f,
     known |-> f \in expanded,
     input |-> input,
     text |-> restored,
     used_vars |-> Sorted(Keys(macros_used_def)),
     pbs |-> Pbs(restored, used_macro, macros_used_def, stats_statement, macro_problem),
     used |-> used_macro,
     defs |-> macros_used_def]

Unexpanded(f, input) == Returns(f, input, Restore(input, macros_used_def))

\* unexpand(text, path_dir, path_name) on the translation of the file:
\* the path is not used to find a record; self.used_macro does not exist
\* before the first expand (AttributeError)
Unexpand(f, kind) ==
    /\ pc = "idle"
    /\ error = ""
    /\ IF file_path = NoFile
       THEN /\ error' = "AttributeError"
            /\ out' = NoOut
       ELSE /\ error' = ""
            /\ out' = Unexpanded(f, Translate(kind, IF f \in expanded THEN tmp[f] ELSE files[f]))
    /\ UNCHANGED <<yaml, macro_expansion_maps, files, generic_macro_expansion_maps, macros_used_def, used_macro,
                   macro_problem, file_path, stats_statement, pc, text, todo, macrod, nb_try,
                   tmp, expanded, recorded>>

Next ==
    \/ \E f \in DOMAIN files : Expand(f)
    \/ ForMacro
    \/ While
    \/ Substitute
    \/ Return
    \/ \E f \in DOMAIN files, kind \in Translations : Unexpand(f, kind)

\* ------------------------------------------------------------------------
\* Two files of a job under a map that declares one string macro
\* ------------------------------------------------------------------------

MaxTokens == 2

Tokens == {"$A", "${A}", "\\", "xy", "$U"}

Maps == {[k \in {"${A}"} |-> "xy"]}

Init == InitWith(Maps, {[f \in {"a.sql", "b.sql"} |-> IF f = "a.sql" THEN ta ELSE tb] :
                            ta \in Concats(Tokens, MaxTokens), tb \in {"$A", "$U"}})

Spec == Init /\ [][Next]_vars

\* ------------------------------------------------------------------------
\* One file under a map that declares one macro M, of every type
\* ------------------------------------------------------------------------

TypedValues ==
    {"5", " 5 ", "32000", "5.0", "NaN", "31/12/9999", "2012-10-18", "0001-01-01",
     "2000/01*01 80:80:80", "COM_CAP_VM_MM2_CY2", "'azerty'", "'", "''"}

\* the texts of the file: references to M and occurrences of its value
TypedTexts(v) == Concats({"${M}", Strip(v), Lower(Strip(v))}, MaxTokens)

InitTyped ==
    \E v \in TypedValues :
        InitWith({[k \in {"${M}"} |-> v]}, {[f \in {"a.sql"} |-> t] : t \in TypedTexts(v)})

SpecTyped == InitTyped /\ [][Next]_vars

\* ------------------------------------------------------------------------
\* One file under a map whose names and values hold one another: A is
\* the start of AB and of no other name, xy the start of xyz, and ab, in
\* upper case, the name AB; H is the start of the reserved name HEADER
\* ------------------------------------------------------------------------

NameTokens == {"$A", "$AB", "${AB}", "$C", "$H", "$HEADER", "${Workfile}", "xy"}

NameMaps ==
    {[k \in {"${A}", "${AB}"} |-> IF k = "${A}" THEN "xy" ELSE "xyz"],
     [k \in {"${AB}", "${C}"} |-> IF k = "${AB}" THEN "xyz" ELSE "ab"]}

InitNames == InitWith(NameMaps, {[f \in {"a.sql"} |-> t] : t \in Concats(NameTokens, MaxTokens)})

SpecNames == InitNames /\ [][Next]_vars

\* ------------------------------------------------------------------------
\* One file under a yaml file of two patterns that both match a.sql and
\* both declare A, in either order
\* ------------------------------------------------------------------------

Catalogs ==
    {<<[pattern |-> "a*", macros |-> [k \in {"${A}"} |-> "uv"]],
       [pattern |-> GenericPattern, macros |-> [k \in {"${A}"} |-> "xy"]]>>,
     <<[pattern |-> GenericPattern, macros |-> [k \in {"${A}"} |-> "xy"]],
       [pattern |-> "a*", macros |-> [k \in {"${A}"} |-> "uv"]]>>}

InitCatalog == InitOf(Catalogs, {[f \in {"a.sql"} |-> t] : t \in Concats(Tokens, MaxTokens)})

SpecCatalog == InitCatalog /\ [][Next]_vars

\* ------------------------------------------------------------------------
\* Properties
\* ------------------------------------------------------------------------

\* the last call was unexpand, it returned, and it was given the text that
\* the expand of the same file returned, unchanged, right after that expand
RoundTripped ==
    /\ out.path # NoFile
    /\ out.known
    /\ file_path = out.path
    /\ out.input = tmp[out.path]

\* a reference at position i: $NAME or ${NAME}, escaped or not
RefAt(t, i) ==
    \/ Ch(t, i) = "$" /\ IsIdentStart(Ch(t, i + 1))
    \/ HasAt(t, i, "${") /\ IsIdentStart(Ch(t, i + 2)) /\ Ch(t, IdentEnd(t, i + 2) + 1) = "}"

\* the name of the reference at position i
RefName(t, i) ==
    IF HasAt(t, i, "${") THEN SubSeq(t, i + 2, IdentEnd(t, i + 2))
    ELSE SubSeq(t, i + 1, IdentEnd(t, i + 1))

\* the first position behind the reference at position i
RefEnd(t, i) == IF HasAt(t, i, "${") THEN IdentEnd(t, i + 2) + 2 ELSE IdentEnd(t, i + 1) + 1

RECURSIVE NormalisedFrom(_, _)
\* t from position i on with every reference that no backslash precedes
\* written {NAME}, and nothing else changed
NormalisedFrom(t, i) ==
    LET hits == {j \in i..Len(t) : RefAt(t, j) /\ Ch(t, j - 1) # "\\"}
        j == Least(hits)
    IN IF hits = {} THEN SubSeq(t, i, Len(t))
       ELSE SubSeq(t, i, j - 1) \o Placeholder(RefName(t, j)) \o NormalisedFrom(t, RefEnd(t, j))

Normalised(t) == NormalisedFrom(t, 1)

\* every name t refers to, escaped or not, is declared by the yaml file
AllDeclared(t) == \A i \in 1..Len(t) : RefAt(t, i) => Key(RefName(t, i)) \in DOMAIN yaml

\* no declared value occurs in t, whatever the case
NoCollision(t) == \A k \in DOMAIN yaml : ~SearchIgnoreCase(Strip(yaml[k]), t)

\* C1: round trip.  When every reference of a file is declared and no macro
\* value collides with its text, expand, a translation that changes nothing
\* and unexpand give back the text of the file with every reference written
\* {NAME} and nothing else changed.
C1_RoundTrip ==
    (/\ RoundTripped
     /\ AllDeclared(files[out.path])
     /\ NoCollision(files[out.path])
     /\ recorded[out.path].problems = <<>>)
        => out.text = Normalised(files[out.path])

\* C2: record isolation.  unexpand for a file that was expanded works with
\* the reference counts and the macro values the expand of that file
\* recorded, whatever other files were expanded since.
C2_OwnRecord ==
    (out.path # NoFile /\ out.known) =>
        /\ out.used = recorded[out.path].used
        /\ \A k \in 1..Len(recorded[out.path].used) :
               LET name == recorded[out.path].used[k].name
               IN /\ name \in Keys(out.defs)
                  /\ Get(out.defs, name).expansion
                         = Get(recorded[out.path].defs, name).expansion

\* C3: escaped references.  The text expand returns for a file holds every
\* backslash-dollar pair of the file: no reference that follows a backslash
\* was replaced.
C3_EscapedKept == \A f \in expanded : Count(tmp[f], "\\$") = Count(files[f], "\\$")

\* C4: the collision loop.  expand does not raise out of the loop, the loop
\* counts at most nb_try_max perturbations, and it is left either with a
\* value that does not occur in the text (whatever the case) or with the
\* budget used up.
C4_LoopEnds ==
    /\ error \notin {"InvalidOperation", "ValueError", "OverflowError"}
    /\ nb_try <= nb_try_max + 1
    /\ pc = "after" => (~SearchIgnoreCase(macrod.expansion, text) \/ nb_try > nb_try_max)

\* C5: lexical shape.  Every value try_uncollide gives an integer macro
\* parses as an integer, and every value it gives a datetime:<fmt> macro
\* parses under <fmt>.
C5_ShapeKept ==
    (pc \in {"while", "after"} /\ nb_try > 0) =>
        /\ macrod.macro_type = "integer" => IsInt(macrod.expansion)
        /\ StartsWith(macrod.macro_type, "datetime:") =>
               Strptime(macrod.expansion, SubSeq(macrod.macro_type, 10, Len(macrod.macro_type))).ok

\* v parses under one of the date formats
IsDate(v) == \E k \in 1..Len(valid_date_formats) : Strptime(v, valid_date_formats[k]).ok

\* t is the first success among the attempts on v, in their order
FirstSuccess(t, v, integer, decimal, date, database) ==
    /\ integer => t = "integer"
    /\ (~integer /\ decimal) => t = "decimal"
    /\ (~integer /\ ~decimal /\ date) =>
           \E k \in 1..Len(valid_date_formats) :
               /\ t = "datetime:" \o valid_date_formats[k]
               /\ Strptime(v, valid_date_formats[k]).ok
    /\ (~integer /\ ~decimal /\ ~date /\ database) => t = "database"
    /\ (~integer /\ ~decimal /\ ~date /\ ~database) => t = "string"

\* the macro m inferred from the trimmed value v, as the examples have it
Typed(m, v) ==
    /\ m.expansion_def = v
    /\ FirstSuccess(m.macro_type, v, IsInt(v), IsDecimal(v), IsDate(v), EndsWith(v, "_MM2_CY2"))
    /\ m.quote = (StartsWith(v, "'") /\ EndsWith(v, "'"))
    /\ v = "5" => m.macro_type = "integer"
    /\ v = "5.0" => m.macro_type = "decimal"
    /\ v = "31/12/9999" => m.macro_type = "datetime:%d/%m/%Y"
    /\ v = "2000/01*01 80:80:80" => m.macro_type = "string"
    /\ v = "COM_CAP_VM_MM2_CY2" => m.macro_type = "database"

C7_LookupError == out.path # NoFile => out.known

\* C8: macros the yaml file lacks.  expand does not raise, and the header
\* unexpand writes for a file, right after the expand of that file, has a
\* "not defined" line for every macro the file refers to and the yaml file
\* does not declare.
C8_NotDefinedReported ==
    /\ error \notin {"InvalidOperation", "ValueError", "OverflowError"}
    /\ (out.path # NoFile /\ out.known /\ file_path = out.path) =>
           \A name \in Keys(UsedMacros(files[out.path])) :
               Key(name) \notin DOMAIN yaml =>
                   \E k \in 1..Len(out.pbs) :
                       out.pbs[k].what = "not defined" /\ out.pbs[k].name = name

\* the lines of the header the audit wrote for the macro name
AuditLines(name) ==
    SelectSeq(out.pbs, LAMBDA l : l.name = name /\ l.what \in {"lost", "more"})

\* C9: recovery audit.  unexpand returns, and for every macro counted at
\* expansion its header has: no line when the restored text holds as many
\* {NAME} as counted; one "lost" line when it holds fewer, an error, or a
\* warning if the macro is a database; one "more" warning when it holds
\* more.
C9_Audit ==
    out.path # NoFile =>
        /\ error = ""
        /\ \A k \in 1..Len(out.used) :
               LET u == out.used[k]
                   n == Count(out.text, Placeholder(u.name))
                   lines == AuditLines(u.name)
               IN /\ n = u.count => lines = <<>>
                  /\ n < u.count =>
                         /\ Len(lines) = 1
                         /\ lines[1].what = "lost"
                         /\ lines[1].count = u.count
                         /\ lines[1].output = n
                         /\ lines[1].level =
                                IF Get(out.defs, u.name).macro_type = "database"
                                THEN "warning" ELSE "error"
                  /\ n > u.count =>
                         /\ Len(lines) = 1
                         /\ lines[1].what = "more"
                         /\ lines[1].level = "warning"

\* C9 happens: the translation lost the reference of a database macro and
\* the header says so with a warning
C9_Witness ==
    /\ out.path # NoFile
    /\ \E k \in 1..Len(out.used) :
           /\ Get(out.defs, out.used[k].name).macro_type = "database"
           /\ Count(out.text, Placeholder(out.used[k].name)) < out.used[k].count
           /\ AuditLines(out.used[k].name) # <<>>

\* C10: database macros.  expand leaves the loop with the declared value of
\* a database macro, records that value for the file, and, when the value
\* occurs in the text at that moment (whatever the case), adds a "database
\* collide" line that names the macro to the problems of the file.
C10_DatabaseKept ==
    [][(pc = "after" /\ macrod.macro_type = "database") =>
          /\ macrod.expansion = Strip(yaml[Key(macrod.name)])
          /\ macrod.name \in Keys(macros_used_def')
          /\ Get(macros_used_def', macrod.name).expansion = Strip(yaml[Key(macrod.name)])
          /\ SearchIgnoreCase(macrod.expansion, text) =>
                 \E k \in 1..Len(macro_problem') :
                     /\ macro_problem'[k].what = "database collide"
                     /\ macro_problem'[k].name = macrod.name]_vars

\* C10 happens: expand has returned for a file whose text held the value of
\* its database macro, in another case, and the collision is on record
C10_Witness ==
    /\ pc = "idle"
    /\ \E f \in expanded :
           /\ recorded[f].defs # <<>>
           /\ recorded[f].defs[1].macro_type = "database"
           /\ SearchIgnoreCase(recorded[f].defs[1].expansion, files[f])
           /\ ~Contains(files[f], recorded[f].defs[1].expansion)
           /\ recorded[f].problems # <<>>

RECURSIVE DeclaredFrom(_, _)
\* t from position i on with every reference that no backslash precedes
\* replaced by the value the yaml file declares for its name
DeclaredFrom(t, i) ==
    LET hits == {j \in i..Len(t) : RefAt(t, j) /\ Ch(t, j - 1) # "\\"}
        j == Least(hits)
    IN IF hits = {} THEN SubSeq(t, i, Len(t))
       ELSE SubSeq(t, i, j - 1) \o Strip(yaml[Key(RefName(t, j))]) \o DeclaredFrom(t, RefEnd(t, j))

\* C11: declared macros.  For a file whose references are all declared and
\* whose text holds no declared value, expand returns the text with every
\* reference replaced by the declared value, and the header unexpand writes
\* for the unchanged text lists every macro of the file in USED_VARS and
\* has no line behind it.
C11_DeclaredExpansion ==
    (/\ RoundTripped
     /\ AllDeclared(files[out.path])
     /\ NoCollision(files[out.path]))
        => /\ tmp[out.path] = DeclaredFrom(files[out.path], 1)
           /\ \A name \in Keys(UsedMacros(files[out.path])) :
                  \E k \in 1..Len(out.used_vars) : out.used_vars[k] = name
           /\ out.pbs = <<>>

\* C12: fallback values.  expand never changes or removes a value the map
\* holds, declared or synthesized; it synthesizes a value, and reports the
\* macro as not defined, only for a name the map has no value for; and the
\* definition it works on is made from the value the map holds.
C12_FallbackMemo ==
    [][/\ \A k \in DOMAIN generic_macro_expansion_maps :
              /\ k \in DOMAIN generic_macro_expansion_maps'
              /\ generic_macro_expansion_maps'[k] = generic_macro_expansion_maps[k]
       /\ \A k \in DOMAIN yaml : generic_macro_expansion_maps'[k] = yaml[k]
       /\ (pc = "for" /\ pc' = "while") =>
              /\ macrod'.expansion_def = Strip(generic_macro_expansion_maps'[Key(macrod'.name)])
              /\ macro_problem' # macro_problem =>
                     Key(macrod'.name) \notin DOMAIN generic_macro_expansion_maps]_vars

\* C12 happens: two files refer to the undeclared U; the expand of the
\* second found the value the first had stored and reported nothing
C12_Witness ==
    \E f \in expanded, g \in expanded :
        /\ f # g
        /\ "U" \in Keys(recorded[f].used)
        /\ "U" \in Keys(recorded[g].used)
        /\ recorded[f].problems # <<>>
        /\ recorded[g].problems = <<>>
        /\ Get(recorded[f].defs, "U").expansion_def = Get(recorded[g].defs, "U").expansion_def

\* C14: consume once.  After unexpand has returned for a file, no unexpand
\* returns for that file again before a new expand; and the counts and the
\* definitions unexpand works with for an expanded file are those the
\* expand of that file recorded.
C14_ConsumedOnce ==
    [][/\ out.path # NoFile => out'.path # out.path
       /\ (out'.path # NoFile /\ out'.known) =>
              /\ out'.used = recorded'[out'.path].used
              /\ out'.defs = recorded'[out'.path].defs]_vars

\* the values at an offset of 0..MAX_RAND from the integer v, below v when
\* v is 32000 or more, above it otherwise
IntShifts(v) == {IntStr(IF v >= 32000 THEN v - r ELSE v + r) : r \in 0..MAX_RAND}

\* the same for the decimal d
DecShifts(d) ==
    {DecStr(IF DecLess(d, 32000) THEN DecAdd(d, r, FALSE) ELSE DecAdd(d, 0 - r, TRUE)) :
        r \in 0..MAX_RAND}

\* C16: direction of the numeric perturbation.  Every value the loop gives
\* an integer or decimal macro is the declared value less an offset of
\* 0..120 when the declared value is 32000 or more, and the declared value
\* plus such an offset when it is below 32000.
C16_Direction ==
    (pc \in {"while", "after"} /\ nb_try > 0) =>
        /\ macrod.macro_type = "integer" =>
               macrod.expansion \in IntShifts(IntVal(macrod.expansion_def))
        /\ macrod.macro_type = "decimal" =>
               macrod.expansion \in DecShifts(DecParse(macrod.expansion_def))

\* the number of the attempt that made the current value of macrod
LastAttempt == IF nb_try > nb_try_max THEN nb_try_max ELSE nb_try

\* C19: quoted strings.  Every value the loop gives a string macro whose
\* declared value starts and ends with a single quote starts and ends with
\* a single quote, and ends with the characters the declared value has
\* behind the run that was replaced.
C19_QuoteKept ==
    (pc \in {"while", "after"} /\ nb_try > 0 /\ macrod.macro_type = "string" /\ macrod.quote) =>
        /\ StartsWith(macrod.expansion, "'")
        /\ EndsWith(macrod.expansion, "'")
        /\ FirstAlnum(macrod.expansion_def) > 0 =>
               EndsWith(macrod.expansion,
                        SubSeq(macrod.expansion_def,
                               FirstAlnum(macrod.expansion_def) + Cplx(LastAttempt),
                               Len(macrod.expansion_def)))

\* the references of t, bare (braced FALSE) or braced, that name the
\* reserved name in full
ReservedRefs(t, name, braced) ==
    Cardinality({i \in 1..Len(t) : /\ IF braced THEN BracedAt(t, i) ELSE BareAt(t, i)
                                   /\ RefName(t, i) = name})

\* C13: reserved names.  The text expand returns for a file holds every
\* reference to HEADER and Workfile the file holds, and expand makes no
\* record entry, no value in the map and no problem line for these names.
C13_ReservedIgnored ==
    /\ \A f \in expanded :
           /\ \A name \in {"HEADER", "Workfile"} :
                  /\ Count(tmp[f], "$" \o name) >= ReservedRefs(files[f], name, FALSE)
                  /\ Count(tmp[f], Key(name)) >= ReservedRefs(files[f], name, TRUE)
           /\ Keys(recorded[f].used) \cap {"HEADER", "Workfile"} = {}
           /\ Keys(recorded[f].defs) \cap {"HEADER", "Workfile"} = {}
           /\ \A k \in 1..Len(recorded[f].problems) :
                  recorded[f].problems[k].name \notin {"HEADER", "Workfile"}
    /\ DOMAIN generic_macro_expansion_maps \cap {Key("HEADER"), Key("Workfile")} = {}

\* a is a proper part of b
ProperPart(a, b) == a # "" /\ Len(a) < Len(b) /\ Contains(b, a)

\* the occurrences of v in s as it is, in lower case and in upper case
CountVariants(s, v) ==
    Count(s, v) + (IF Lower(v) # v THEN Count(s, Lower(v)) ELSE 0)
                + (IF Upper(v) \notin {v, Lower(v)} THEN Count(s, Upper(v)) ELSE 0)

\* every occurrence of the value of b in the text unexpand was given came
\* back as the placeholder of b, and the placeholders of a are no more
\* than the occurrences of the value of a outside those of the value of b
LongerFirst(a, b) ==
    /\ Count(out.text, Placeholder(b.name)) >= Count(out.input, b.expansion)
    /\ Count(out.text, Placeholder(a.name))
           <= CountVariants(Replace(out.input, b.expansion, "|"), a.expansion)

OwnRefAt(t, i) ==
    /\ BareAt(t, i) \/ BracedAt(t, i)
    /\ RefName(t, i) \notin {"HEADER", "Workfile"}

RECURSIVE ResolvedFrom(_, _, _)
\* t from position i on with every reference unix_var matches replaced by
\* the value defs has for the name of the reference
ResolvedFrom(t, i, defs) ==
    LET hits == {j \in i..Len(t) : OwnRefAt(t, j)}
        j == Least(hits)
    IN IF hits = {} THEN SubSeq(t, i, Len(t))
       ELSE SubSeq(t, i, j - 1) \o Get(defs, RefName(t, j)).expansion
                \o ResolvedFrom(t, RefEnd(t, j), defs)

\* C18: a reference belongs to one name.  The text expand returns for a
\* file is the text of the file with each reference replaced by the value
\* resolved for the macro the reference names in full, and with nothing
\* else replaced.
C18_OwnName == \A f \in expanded : tmp[f] = ResolvedFrom(files[f], 1, recorded[f].defs)

RECURSIVE PlaceholdersKept(_, _, _)
\* the loop of unexpand over the macros in order, from the text s: no step
\* leaves fewer placeholders of a macro taken before (done) than it found
PlaceholdersKept(s, ordered, done) ==
    \/ ordered = <<>>
    \/ /\ \A n \in done :
              Count(UnexpandOne(s, Head(ordered)), Placeholder(n)) >= Count(s, Placeholder(n))
       /\ PlaceholdersKept(UnexpandOne(s, Head(ordered)), Tail(ordered),
                           done \cup {Head(ordered).name})

\* C20: placeholders stay.  In one call of unexpand, the replacement of the
\* value of a macro (as it is, in lower case, in upper case) rewrites no
\* placeholder written for a macro taken before it.
C20_PlaceholdersKept ==
    out.path # NoFile => PlaceholdersKept(out.input, SortedByLen(out.defs), {})

\* the entries of the catalog whose pattern matches the path and that
\* declare the key
Matching(catalog, path, key) ==
    {k \in 1..Len(catalog) : Fnmatch(path, catalog[k].pattern) /\ key \in DOMAIN catalog[k].macros}

\* the value of the first of them
FirstMatch(catalog, path, key) == catalog[Least(Matching(catalog, path, key))].macros[key]

\* C15: precedence.  When patterns of the yaml file match the path of a
\* file and declare a macro, the definition expand works on for that file
\* is made from the value of the first of these patterns, and the loop over
\* the patterns gives every macro, for the path of that file, the value of
\* the first pattern that matches and declares it.
C15_FirstMatchWins ==
    pc = "while" =>
        /\ Matching(macro_expansion_maps, file_path, Key(macrod.name)) # {} =>
               macrod.expansion_def
                   = Strip(FirstMatch(macro_expansion_maps, file_path, Key(macrod.name)))
        /\ \A key \in DOMAIN RegPatternMap(macro_expansion_maps, file_path, 1, <<>>) :
               RegPatternMap(macro_expansion_maps, file_path, 1, <<>>)[key]
                   = FirstMatch(macro_expansion_maps, file_path, key)
====
